---- MODULE Spec2Model ----
(***************************************************************************)
(* BSplineInterpolatorCUDA (gryds/interpolators/bspline_cuda.py): an       *)
(* adapter that binds an image to default interpolation settings and       *)
(* forwards sample / resample / transform to                               *)
(* cupyx.scipy.ndimage.map_coordinates.                                    *)
(*                                                                         *)
(* Numbers.  Coordinates are integers counting HALF pixels (coordinate 3   *)
(* is 1.5 pixels), intensities are multiples of 4, so that linear          *)
(* interpolation at half-pixel coordinates of an image of up to two        *)
(* dimensions is exact in the integers.                                    *)
(*                                                                         *)
(* Arrays are records [shape, data] with data in row-major (C) order, as   *)
(* numpy stores them; positions inside data are 1-based.                   *)
(*                                                                         *)
(* Optional arguments are sequences: <<>> is Python's None (not given),    *)
(* <<v>> is the value v.                                                   *)
(***************************************************************************)
EXTENDS Integers, Sequences, FiniteSets, TLC

VARIABLES
    self,   \* the instance: image, grid, default_mode, default_order, default_cval
    ctor,   \* the arguments the constructor was called with (never written again)
    call,   \* Spec: the call that has just returned (or raised), or NoCall
    frames, \* SpecConc: thread -> the frame of the call it is executing
    raised  \* SpecConc: whether a call has ended in the kernel refusing its
            \* mode or order

vars == <<self, ctor, call, frames, raised>>

---------------------------------------------------------------------------
(* Bounds of the model *)

\* longest axis of a bound image
MaxLen == 2
\* most transforms given to one transform() call
MaxTs == 2

---------------------------------------------------------------------------
(* Arrays *)

Arr(shape, data) == [shape |-> shape, data |-> data]

RECURSIVE Prod(_)
Prod(s) == IF s = <<>> THEN 1 ELSE Head(s) * Prod(Tail(s))

\* the 0-based index tuple of the 0-based row-major position p
Unravel(shape, p) ==
    [k \in 1..Len(shape) |->
        (p \div Prod(SubSeq(shape, k + 1, Len(shape)))) % shape[k]]

\* the 0-based row-major position of index tuple idx
RECURSIVE Ravel(_, _, _)
Ravel(shape, idx, k) ==
    IF k = 0 THEN 0 ELSE Ravel(shape, idx, k - 1) * shape[k] + idx[k]

Pixel(image, idx) == image.data[Ravel(image.shape, idx, Len(image.shape)) + 1]

\* outcome of a call: an array, or a raised exception
Ok(arr) == [ok |-> TRUE, shape |-> arr.shape, data |-> arr.data, err |-> ""]
Raise(e) == [ok |-> FALSE, shape |-> <<>>, data |-> <<>>, err |-> e]

KernelError == "map_coordinates raised"
ReshapeError == "ValueError: cannot reshape array"

---------------------------------------------------------------------------
(* numpy: points.reshape(self.image.ndim, -1) and np.transpose *)

\* ndarray.reshape(n, -1): the same data seen as n rows
reshape2(a, n) == Arr(<<n, Len(a.data) \div n>>, a.data)

\* np.transpose of a two-dimensional array: element (i, j) goes to (j, i)
transpose(a) ==
    LET r == a.shape[1]
        c == a.shape[2]
    IN  Arr(<<c, r>>,
            [q \in 1..(r * c) |->
                LET j == (q - 1) \div r
                    i == (q - 1) % r
                IN  a.data[i * c + j + 1]])

\* ndarray.reshape(shape): the same data under another shape, ValueError
\* when the number of elements differs
reshape(a, shape) ==
    IF Prod(shape) = Len(a.data) THEN Ok(Arr(shape, a.data))
    ELSE Raise(ReshapeError)

---------------------------------------------------------------------------
(* cupyx.scipy.ndimage.map_coordinates, the external kernel.               *)
(* Its contract is that of scipy.ndimage.map_coordinates, which it         *)
(* mirrors: "The shape of the output is derived from that of the           *)
(* coordinate array by dropping the first axis.  The values of the array   *)
(* along the first axis are the coordinates in the input array at which    *)
(* the output value is found."  So coordinates has shape (input.ndim, ...) *)
(* and column i of it is the i-th point.                                   *)

\* modes and spline orders _check_parameter accepts (orders 2..5 depend on
\* the library version and are not among the inputs of the model)
KernelModes == {"constant", "nearest", "mirror", "reflect", "wrap"}
KernelOrders == {0, 1}

InDomain(image, c) ==
    \A k \in 1..Len(image.shape) : 0 <= c[k] /\ c[k] <= 2 * (image.shape[k] - 1)

\* mode='nearest': the coordinate is clamped to the edge
Clamp(image, c) ==
    [k \in 1..Len(image.shape) |->
        IF c[k] < 0 THEN 0
        ELSE IF c[k] > 2 * (image.shape[k] - 1) THEN 2 * (image.shape[k] - 1)
        ELSE c[k]]

\* order=1: linear interpolation between the two neighbours on every axis
RECURSIVE Lerp(_, _, _)
Lerp(image, c, idx) ==
    LET k == Len(idx) + 1
    IN  IF k > Len(image.shape) THEN Pixel(image, idx)
        ELSE LET lo == c[k] \div 2
                 f == c[k] % 2
                 hi == IF lo + 1 <= image.shape[k] - 1 THEN lo + 1 ELSE lo
             IN  ((2 - f) * Lerp(image, c, Append(idx, lo))
                    + f * Lerp(image, c, Append(idx, hi))) \div 2

\* order=0: the nearest pixel, floor(x + 0.5) on every axis
Nearest(image, c) == Pixel(image, [k \in 1..Len(image.shape) |-> (c[k] + 1) \div 2])

\* the intensity at one point c (a tuple of half-pixel coordinates) of the
\* modes the model's inputs use
Interp(image, c, mode, order, cval) ==
    CASE mode = "constant" ->
            IF ~InDomain(image, c) THEN cval
            ELSE IF order = 0 THEN Nearest(image, c) ELSE Lerp(image, c, <<>>)
      [] mode = "nearest" ->
            IF order = 0 THEN Nearest(image, Clamp(image, c))
            ELSE Lerp(image, Clamp(image, c), <<>>)

\* values a call outside the kernel's contract may leave in its output
Unspecified == {0, 4, 8}

\* The set of outcomes of nd.map_coordinates(input, coordinates, mode, order,
\* cval) for a two-dimensional coordinates array.  Within the contract
\* (coordinates.shape[0] = input.ndim) there is one.  Outside it the library
\* promises nothing: scipy raises, cupy versions differ between raising and
\* reading the first input.ndim rows or past the buffer; every outcome of the
\* documented output shape is possible.
map_coordinates(input, coordinates, mode, order, cval) ==
    LET R == coordinates.shape[1]
        C == coordinates.shape[2]
        nd == Len(input.shape)
    IN  IF mode \notin KernelModes \/ order \notin KernelOrders
        THEN {Raise(KernelError)}
        ELSE IF R = nd
        THEN {Ok(Arr(<<C>>,
                 [i \in 1..C |->
                    Interp(input, [k \in 1..nd |-> coordinates.data[(k - 1) * C + i]],
                           mode, order, cval)]))}
        ELSE {Raise(KernelError)}
                \cup {Ok(Arr(<<C>>, d)) : d \in [1..C -> Unspecified]}

---------------------------------------------------------------------------
(* The collaborators of the package that this file only calls: Grid and    *)
(* DTYPE.  A Grid holds relative coordinates; coordinate number x on axis  *)
(* k stands for x / den[k].                                                *)

Transforms == {"identity", "shift", "flip"}

\* the default grid of an image of this shape: pixel j of axis k sits at j / shape[k]
Grid_default(shape) ==
    LET N == Prod(shape)
        nd == Len(shape)
    IN  [grid |-> Arr(<<nd>> \o shape,
                      [q \in 1..(nd * N) |->
                          2 * Unravel(shape, (q - 1) % N)[((q - 1) \div N) + 1]]),
         den |-> [k \in 1..nd |-> 2 * shape[k]]]

\* Grid.scaled_to(size): the coordinates in pixels of an image of that size
\* (here in half pixels, so den becomes 2)
Grid_scaled_to(g, size) ==
    LET nd == Len(g.den)
        N == Len(g.grid.data) \div nd
    IN  [grid |-> Arr(g.grid.shape,
                      [q \in 1..(nd * N) |->
                          LET k == ((q - 1) \div N) + 1
                          IN  (2 * g.grid.data[q] * size[k]) \div g.den[k]]),
         den |-> [k \in 1..nd |-> 2]]

\* one transform applied to a grid: "shift" moves the last axis by half a
\* pixel of the default grid, "flip" mirrors the last axis
ApplyTransform(g, t) ==
    LET nd == Len(g.den)
        N == Len(g.grid.data) \div nd
    IN  [g EXCEPT !.grid.data =
            [q \in 1..(nd * N) |->
                IF q <= (nd - 1) * N \/ t = "identity" THEN g.grid.data[q]
                ELSE IF t = "shift" THEN g.grid.data[q] + 1
                ELSE g.den[nd] - 2 - g.grid.data[q]]]

\* Grid.transform(*transforms): the transforms applied one after the other,
\* in argument order
RECURSIVE Grid_transform(_, _)
Grid_transform(g, transforms) ==
    IF transforms = <<>> THEN g
    ELSE Grid_transform(ApplyTransform(g, Head(transforms)), Tail(transforms))

\* ndarray.astype(DTYPE): every intensity of the model is a small integer,
\* which the floating-point DTYPE holds exactly; an exception passes through
astype(r) == r

---------------------------------------------------------------------------
(* BSplineInterpolatorCUDA *)

\* __init__(image, mode, order, cval): the base class stores the image and
\* its default grid, then the three defaults are stored as given
init(image, mode, order, cval) ==
    [image |-> image,
     grid |-> Grid_default(image.shape),
     default_mode |-> mode,
     default_order |-> order,
     default_cval |-> cval]

\* "x if x else default": None, 0 and '' are falsy in Python
new_mode(slf, mode) ==
    IF mode # <<>> /\ mode[1] # "" THEN mode[1] ELSE slf.default_mode

new_order(slf, order) ==
    IF order # <<>> /\ order[1] # 0 THEN order[1] ELSE slf.default_order

new_cval(slf, cval) ==
    IF cval # <<>> /\ cval[1] # 0 THEN cval[1] ELSE slf.default_cval

\* the coordinates array handed to the kernel
kernel_points(slf, points) == transpose(reshape2(points, Len(slf.image.shape)))

\* what comes back from the kernel, moved to the host, reshaped to the
\* image's shape and cast; a kernel exception propagates
sample_result(slf, sample_gpu) ==
    IF ~sample_gpu.ok THEN sample_gpu
    ELSE LET sample_cpu == reshape(sample_gpu, slf.image.shape)
         IN  IF sample_cpu.ok THEN astype(sample_cpu) ELSE sample_cpu

\* sample(points, mode, order, cval): the set of possible runs, each with
\* its outcome (res), the arguments of every kernel invocation in order
\* (kernel) and the collaborator calls in order (trace)
sample(slf, points, mode, order, cval) ==
    LET k == [input |-> slf.image,
              coordinates |-> kernel_points(slf, points),
              mode |-> new_mode(slf, mode),
              order |-> new_order(slf, order),
              cval |-> new_cval(slf, cval)]
    IN  {[res |-> sample_result(slf, sample_gpu),
          kernel |-> <<k>>,
          trace |-> <<"map_coordinates">>] :
            sample_gpu \in map_coordinates(k.input, k.coordinates, k.mode, k.order, k.cval)}

\* resample(grid, mode, order, cval)
resample(slf, grid, mode, order, cval) ==
    LET rescaled_grid == Grid_scaled_to(grid, slf.image.shape)
    IN  {[res |-> astype(r.res),
          kernel |-> r.kernel,
          trace |-> <<"Grid.scaled_to">> \o r.trace] :
            r \in sample(slf, rescaled_grid.grid, mode, order, cval)}

\* kwargs[name] if name in kwargs else None
kwarg(kwargs, name) == IF name \in DOMAIN kwargs THEN <<kwargs[name]>> ELSE <<>>

RECURSIVE Reverse(_)
Reverse(q) == IF q = <<>> THEN <<>> ELSE Append(Reverse(Tail(q)), Head(q))

\* transform with the transforms handed to the grid in reverse order
transform_reversed(slf, transforms, kwargs) ==
    LET mode == kwarg(kwargs, "mode")
        order == kwarg(kwargs, "order")
        cval == kwarg(kwargs, "cval")
        transformed_grid == Grid_transform(slf.grid, Reverse(transforms))
    IN  {[res |-> astype(r.res),
          kernel |-> r.kernel,
          trace |-> <<"Grid.transform">> \o r.trace] :
            r \in resample(slf, transformed_grid, mode, order, cval)}

\* transform reading cval under the key of order
transform_wrong_key(slf, transforms, kwargs) ==
    LET mode == kwarg(kwargs, "mode")
        order == kwarg(kwargs, "order")
        cval == kwarg(kwargs, "order")
        transformed_grid == Grid_transform(slf.grid, transforms)
    IN  {[res |-> astype(r.res),
          kernel |-> r.kernel,
          trace |-> <<"Grid.transform">> \o r.trace] :
            r \in resample(slf, transformed_grid, mode, order, cval)}

\* transform(*transforms, **kwargs)
transform(slf, transforms, kwargs) ==
    LET mode == kwarg(kwargs, "mode")
        order == kwarg(kwargs, "order")
        cval == kwarg(kwargs, "cval")
        transformed_grid == Grid_transform(slf.grid, transforms)
    IN  {[res |-> astype(r.res),
          kernel |-> r.kernel,
          trace |-> <<"Grid.transform">> \o r.trace] :
            r \in resample(slf, transformed_grid, mode, order, cval)}

---------------------------------------------------------------------------
(* Inputs *)

Opt(S) == {<<>>} \cup {<<v>> : v \in S}

Shapes == {<<n>> : n \in 1..MaxLen} \cup {<<h, w>> : h, w \in 1..MaxLen}

\* images: the checkerboard of each shape, 4 where the indices sum to an
\* even number and 0 elsewhere
Images ==
    {Arr(s, [q \in 1..Prod(s) |->
                LET idx == Unravel(s, q - 1)
                    parity == (IF Len(s) = 1 THEN idx[1] ELSE idx[1] + idx[2]) % 2
                IN  IF parity = 0 THEN 4 ELSE 0]) :
        s \in Shapes}

\* "bogus" is no mode of the kernel, -1 no spline order
ModeValues == {"constant", "nearest", "bogus"}
OrderValues == {0, 1, -1}
CvalValues == {0, 8}

\* the transform lists given to transform(): none, the identity alone, and
\* lists of shifts and flips
TSeqs == {<<"identity">>} \cup UNION {[1..n -> {"shift", "flip"}] : n \in 0..MaxTs}

\* coordinates (in half pixels) of the single points given to sample
PointCoords == {0, 1, 4}

\* points arrays: the image's own grid in pixels, as it is or transformed,
\* and arrays of shape (ndims, 1) holding one point
PointsInputs(slf) ==
    {Grid_scaled_to(Grid_transform(slf.grid, ts), slf.image.shape).grid :
        ts \in {<<>>, <<"shift">>, <<"flip">>}}
    \cup {Arr(<<Len(slf.image.shape), 1>>, [k \in 1..Len(slf.image.shape) |-> c]) :
            c \in PointCoords}

\* grids given to resample: the image's grid, as it is or transformed
GridInputs(slf) ==
    {Grid_transform(slf.grid, ts) : ts \in {<<>>, <<"shift">>, <<"flip">>}}

\* keyword arguments of transform: any of mode, order, cval, and possibly
\* one the method does not know
KwargsInputs ==
    {[n \in names |->
        CASE n = "mode" -> m [] n = "order" -> o [] n = "cval" -> c [] OTHER -> 1] :
        names \in SUBSET {"mode", "order", "cval", "prefilter"},
        m \in ModeValues, o \in OrderValues, c \in CvalValues}

NoCall == [op |-> "none"]

\* whether _check_parameter accepts the mode and order of a kernel invocation
KernelAccepts(k) == k.mode \in KernelModes /\ k.order \in KernelOrders

---------------------------------------------------------------------------
(* The state machine: construction, then calls one after the other *)

Init ==
    /\ \E image \in Images, mode \in ModeValues, order \in OrderValues, cval \in CvalValues :
        /\ self = init(image, mode, order, cval)
        /\ ctor = [image |-> image, mode |-> mode, order |-> order, cval |-> cval]
    /\ call = NoCall
    /\ raised = FALSE
    /\ frames = <<>>

Sample ==
    /\ call = NoCall
    /\ \E points \in PointsInputs(self),
          mode \in Opt(ModeValues), order \in Opt(OrderValues), cval \in Opt(CvalValues) :
        \E r \in sample(self, points, mode, order, cval) :
            call' = [op |-> "sample", arg |-> points, transforms |-> <<>>,
                     kwargs |-> [mode |-> mode, order |-> order, cval |-> cval],
                     res |-> r.res, kernel |-> r.kernel, trace |-> r.trace]
    /\ UNCHANGED <<self, ctor, raised, frames>>

Resample ==
    /\ call = NoCall
    /\ \E grid \in GridInputs(self),
          mode \in Opt(ModeValues), order \in Opt(OrderValues), cval \in Opt(CvalValues) :
        \E r \in resample(self, grid, mode, order, cval) :
            call' = [op |-> "resample", arg |-> grid, transforms |-> <<>>,
                     kwargs |-> [mode |-> mode, order |-> order, cval |-> cval],
                     res |-> r.res, kernel |-> r.kernel, trace |-> r.trace]
    /\ UNCHANGED <<self, ctor, raised, frames>>

Transform ==
    /\ call = NoCall
    /\ \E transforms \in TSeqs, kwargs \in KwargsInputs :
        \E r \in transform(self, transforms, kwargs) :
            call' = [op |-> "transform", arg |-> <<>>, transforms |-> transforms,
                     kwargs |-> kwargs,
                     res |-> r.res, kernel |-> r.kernel, trace |-> r.trace]
    /\ UNCHANGED <<self, ctor, raised, frames>>

\* the caller takes the result, or catches the exception and goes on
Return ==
    /\ call # NoCall
    /\ call' = NoCall
    /\ UNCHANGED <<self, ctor, raised, frames>>

Next == Sample \/ Resample \/ Transform \/ Return

Spec == Init /\ [][Next]_vars

---------------------------------------------------------------------------
(* Concurrent callers: two threads call the methods of one instance, each  *)
(* call advancing statement by statement, so that every read of self of   *)
(* one call can fall between any two statements of the other.              *)

Threads == {"t1", "t2"}

\* late: whether the call was entered after another had ended in the
\* kernel's refusal
Idle == [pc |-> "idle", op |-> "none", transforms |-> <<>>, kwargs |-> <<>>,
         over |-> <<>>, grid |-> <<>>, points |-> <<>>, cfg |-> <<>>,
         kernel |-> <<>>, gpu |-> <<>>, res |-> <<>>, late |-> FALSE]

\* the inputs of the concurrent callers
ConcImages == {Arr(<<1, 2>>, <<4, 0>>), Arr(<<2>>, <<4, 0>>)}
ConcOverrides ==
    [mode : {<<>>, <<"bogus">>}, order : {<<>>, <<1>>}, cval : {<<>>, <<8>>}]
ConcKwargs ==
    {[n \in names |-> CASE n = "mode" -> "bogus" [] n = "order" -> 1 [] n = "cval" -> 8] :
        names \in SUBSET {"mode", "order", "cval"}}

InitConc ==
    /\ \E image \in ConcImages, mode \in {"constant", "bogus"}, order \in {0, 1} :
        /\ self = init(image, mode, order, 0)
        /\ ctor = [image |-> image, mode |-> mode, order |-> order, cval |-> 0]
    /\ call = NoCall
    /\ raised = FALSE
    /\ frames = [t \in Threads |-> Idle]

\* a thread enters sample(points, mode, order, cval)
CallSample(t) ==
    /\ frames[t].pc = "idle"
    /\ \E over \in ConcOverrides :
        frames' = [frames EXCEPT ![t] =
            [Idle EXCEPT !.pc = "sample", !.op = "sample", !.over = over, !.late = raised,
                         !.points = Grid_scaled_to(self.grid, self.image.shape).grid]]
    /\ UNCHANGED <<self, ctor, call, raised>>

\* a thread enters resample(grid, mode, order, cval)
CallResample(t) ==
    /\ frames[t].pc = "idle"
    /\ \E over \in ConcOverrides :
        frames' = [frames EXCEPT ![t] =
            [Idle EXCEPT !.pc = "resample", !.op = "resample", !.over = over, !.late = raised,
                         !.grid = Grid_transform(self.grid, <<"flip">>)]]
    /\ UNCHANGED <<self, ctor, call, raised>>

\* a thread enters transform(*transforms, **kwargs)
CallTransform(t) ==
    /\ frames[t].pc = "idle"
    /\ \E kwargs \in ConcKwargs :
        frames' = [frames EXCEPT ![t] =
            [Idle EXCEPT !.pc = "transform", !.op = "transform", !.late = raised,
                         !.transforms = <<"shift">>, !.kwargs = kwargs]]
    /\ UNCHANGED <<self, ctor, call, raised>>

\* transform, up to its call of resample: the keywords are read and the
\* instance's grid is transformed
StepTransform(t) ==
    /\ frames[t].pc = "transform"
    /\ frames' = [frames EXCEPT ![t] =
            [@ EXCEPT !.pc = "resample",
                      !.over = [mode |-> kwarg(frames[t].kwargs, "mode"),
                                order |-> kwarg(frames[t].kwargs, "order"),
                                cval |-> kwarg(frames[t].kwargs, "cval")],
                      !.grid = Grid_transform(self.grid, frames[t].transforms)]]
    /\ UNCHANGED <<self, ctor, call, raised>>

\* resample, up to its call of sample: the grid is scaled to the image
StepResample(t) ==
    /\ frames[t].pc = "resample"
    /\ frames' = [frames EXCEPT ![t] =
            [@ EXCEPT !.pc = "sample",
                      !.points = Grid_scaled_to(frames[t].grid, self.image.shape).grid]]
    /\ UNCHANGED <<self, ctor, call, raised>>

\* the instance's defaults written back from the resolved configuration
StepConfigLeaking(t) ==
    /\ frames[t].pc = "sample"
    /\ frames' = [frames EXCEPT ![t] =
            [@ EXCEPT !.pc = "kernel",
                      !.cfg = [mode |-> new_mode(self, frames[t].over.mode),
                               order |-> new_order(self, frames[t].over.order),
                               cval |-> new_cval(self, frames[t].over.cval)]]]
    /\ self' = [self EXCEPT !.default_mode = new_mode(self, frames[t].over.mode),
                            !.default_order = new_order(self, frames[t].over.order),
                            !.default_cval = new_cval(self, frames[t].over.cval)]
    /\ UNCHANGED <<ctor, call, raised>>

\* sample: the effective configuration is resolved into locals
StepConfig(t) ==
    /\ frames[t].pc = "sample"
    /\ frames' = [frames EXCEPT ![t] =
            [@ EXCEPT !.pc = "kernel",
                      !.cfg = [mode |-> new_mode(self, frames[t].over.mode),
                               order |-> new_order(self, frames[t].over.order),
                               cval |-> new_cval(self, frames[t].over.cval)]]]
    /\ UNCHANGED <<self, ctor, call, raised>>

\* sample: the points are reshaped and the kernel is invoked
StepKernel(t) ==
    /\ frames[t].pc = "kernel"
    /\ LET f == frames[t]
           k == [input |-> self.image,
                 coordinates |-> kernel_points(self, f.points),
                 mode |-> f.cfg.mode, order |-> f.cfg.order, cval |-> f.cfg.cval]
       IN  \E sample_gpu \in map_coordinates(k.input, k.coordinates, k.mode, k.order, k.cval) :
            frames' = [frames EXCEPT ![t] =
                [@ EXCEPT !.pc = "reshape", !.kernel = Append(@, k),
                          !.gpu = sample_gpu]]
    /\ UNCHANGED <<self, ctor, call, raised>>

\* sample: the result is reshaped and cast, and handed up the call chain
StepReshape(t) ==
    /\ frames[t].pc = "reshape"
    /\ frames' = [frames EXCEPT ![t] =
            [@ EXCEPT !.pc = "done", !.res = astype(sample_result(self, frames[t].gpu))]]
    /\ UNCHANGED <<self, ctor, call, raised>>

\* the caller takes the result, or catches the exception and goes on
StepReturn(t) ==
    /\ frames[t].pc = "done"
    /\ frames' = [frames EXCEPT ![t] = Idle]
    /\ raised' = (raised \/ (~frames[t].res.ok /\ ~KernelAccepts(frames[t].kernel[1])))
    /\ UNCHANGED <<self, ctor, call>>

NextConc ==
    \E t \in Threads :
        \/ CallSample(t)
        \/ CallResample(t)
        \/ CallTransform(t)
        \/ StepTransform(t)
        \/ StepResample(t)
        \/ StepConfig(t)
        \/ StepKernel(t)
        \/ StepReshape(t)
        \/ StepReturn(t)

SpecConc == InitConc /\ [][NextConc]_vars

---------------------------------------------------------------------------
(* Vocabulary of the claims *)

Done == call # NoCall

nd == Len(self.image.shape)

\* the override the caller gave for a configuration field, <<>> when none
Given(name) ==
    IF call.op = "transform" THEN kwarg(call.kwargs, name) ELSE call.kwargs[name]

\* the value the caller configured: the override, else the constructor's
Configured(name) == IF Given(name) # <<>> THEN Given(name)[1] ELSE ctor[name]

\* what the one kernel invocation of the call was handed
K == call.kernel[1]

ValidConfig == K.mode \in {"constant", "nearest"} /\ K.order \in KernelOrders

\* the coordinates the caller asks for, as an (ndims, N) array of half pixels
Requested ==
    reshape2(
        CASE call.op = "sample" -> call.arg
          [] call.op = "resample" -> Grid_scaled_to(call.arg, self.image.shape).grid
          [] call.op = "transform" ->
                Grid_scaled_to(Grid_transform(self.grid, call.transforms),
                               self.image.shape).grid,
        nd)

NPoints == Requested.shape[2]

\* the p-th requested point, a tuple of ndims coordinates
PointAt(p) == [k \in 1..nd |-> Requested.data[(k - 1) * NPoints + p]]

\* whether the kernel, which reads column p of its coordinates as the p-th
\* point, read the points the caller asked for
KernelSawRequested ==
    /\ K.coordinates.shape = <<nd, NPoints>>
    /\ \A p \in 1..NPoints :
        PointAt(p) = [k \in 1..nd |-> K.coordinates.data[(k - 1) * NPoints + p]]

\* the outcomes of the same call made without the order override
WithoutOrder ==
    CASE call.op = "sample" ->
            {r.res : r \in sample(self, call.arg, Given("mode"), <<>>, Given("cval"))}
      [] call.op = "resample" ->
            {r.res : r \in resample(self, call.arg, Given("mode"), <<>>, Given("cval"))}
      [] call.op = "transform" ->
            {r.res : r \in transform(self, call.transforms,
                [n \in (DOMAIN call.kwargs) \ {"order"} |-> call.kwargs[n]])}

---------------------------------------------------------------------------
(* Claims *)

\* C1: in every operation, each of mode, order and cval handed to the
\* kernel is the caller's override when one is given (0 included) and the
\* constructor's default otherwise.
C1_OverrideReachesKernel ==
    Done =>
        \A i \in 1..Len(call.kernel) :
            /\ call.kernel[i].mode = Configured("mode")
            /\ call.kernel[i].order = Configured("order")
            /\ call.kernel[i].cval = Configured("cval")

\* C2: on an instance built with order=1, a call that passes order=0 and
\* returns an array returns another one than the same call without the
\* override, whenever order-0 and order-1 interpolation differ at the
\* requested coordinates (and on the coordinates the kernel was handed).
C2_OrderZeroChangesResult ==
    (/\ Done
     /\ Given("order") = <<0>>
     /\ ctor.order = 1
     /\ call.res.ok
     /\ \E p \in 1..NPoints :
            Interp(self.image, PointAt(p), K.mode, 0, K.cval)
                # Interp(self.image, PointAt(p), K.mode, 1, K.cval)
     /\ map_coordinates(K.input, K.coordinates, K.mode, 0, K.cval)
            # map_coordinates(K.input, K.coordinates, K.mode, 1, K.cval))
    => call.res \notin WithoutOrder

\* C3: when the effective mode is 'constant', every position of the
\* returned array whose requested coordinate lies outside the image holds
\* the configured cval: the override when one is passed (0 included), else
\* the constructor's default.  (Stated for the calls in which the kernel
\* read the points as they were requested.)
C3_ConstantFillsCval ==
    (/\ Done
     /\ call.res.ok
     /\ K.mode = "constant"
     /\ NPoints = Len(call.res.data)
     /\ KernelSawRequested)
    => \A p \in 1..NPoints :
            ~InDomain(self.image, PointAt(p)) => call.res.data[p] = Configured("cval")

\* C4: with defaults of order 0 or 1 (and a mode of the kernel) and no
\* override, transform() with no transform or the identity, and resample
\* of the instance's own grid, return the image.
C4_IdentityRoundTrip ==
    (/\ Done
     /\ ctor.order \in {0, 1}
     /\ ctor.mode \in {"constant", "nearest"}
     /\ \A n \in {"mode", "order", "cval"} : Given(n) = <<>>
     /\ \/ call.op = "transform" /\ call.transforms \in {<<>>, <<"identity">>}
        \/ call.op = "resample" /\ call.arg = self.grid)
    => /\ call.res.ok
       /\ call.res.shape = self.image.shape
       /\ call.res.data = self.image.data

\* C5: sample of a points array of shape (ndims, 1) completes, whatever the
\* image's shape, and returns the one intensity the kernel gives at that
\* coordinate under the effective mode, order and cval.
C5_SinglePoint ==
    (/\ Done
     /\ call.op = "sample"
     /\ call.arg.shape = <<nd, 1>>
     /\ ValidConfig)
    => /\ call.res.ok
       /\ call.res.data = <<Interp(self.image, PointAt(1), K.mode, K.order, K.cval)>>

\* C6: whatever calls are made, one after the other or interleaved, with
\* overrides or failing, the instance stays as constructed, and every call
\* that has ended is one of the runs of that call alone on the instance as
\* constructed.
C6_NoSharedMutableState ==
    /\ self = init(ctor.image, ctor.mode, ctor.order, ctor.cval)
    /\ \A t \in Threads :
        frames[t].pc = "done" =>
            LET f == frames[t]
                me == init(ctor.image, ctor.mode, ctor.order, ctor.cval)
                alone ==
                    CASE f.op = "sample" ->
                            sample(me, f.points, f.over.mode, f.over.order, f.over.cval)
                      [] f.op = "resample" ->
                            resample(me, f.grid, f.over.mode, f.over.order, f.over.cval)
                      [] f.op = "transform" ->
                            transform(me, f.transforms, f.kwargs)
            IN  \E r \in alone : r.res = f.res /\ r.kernel = f.kernel

\* a call with an order override has returned an array while the other
\* thread, which gave none, is about to invoke the kernel, after an earlier
\* call had failed
C6_Witness ==
    /\ frames["t1"].pc = "done"
    /\ frames["t1"].over.order = <<1>>
    /\ ctor.order = 0
    /\ frames["t1"].res.ok
    /\ frames["t2"].pc = "kernel"
    /\ frames["t2"].over.order = <<>>
    /\ raised

\* C7: construction accepts every mode, order and cval; an invalid value
\* raises only in a call whose kernel invocation is handed it; that call
\* invokes the kernel once, ends in the kernel's error, leaves the instance
\* as constructed, and a later call with a valid effective configuration
\* succeeds.
C7_InvalidConfigSurfacesAtKernel ==
    /\ self = init(ctor.image, ctor.mode, ctor.order, ctor.cval)
    /\ \A t \in Threads :
        frames[t].pc = "done" =>
            LET f == frames[t]
            IN  /\ Len(f.kernel) = 1
                /\ ~KernelAccepts(f.kernel[1]) =>
                        ~f.res.ok /\ f.res.err = KernelError
                /\ (f.late /\ KernelAccepts(f.kernel[1])) => f.res.ok

\* C8: transform(t1..tn, overrides) returns what resample of
\* self.grid.transform(t1..tn) returns, resample(g, overrides) what sample
\* of g.scaled_to(image.shape).grid returns, with the same overrides; the
\* kernel is invoked once per top-level call, after the grid operations.
C8_DelegationChain ==
    Done =>
        /\ Len(call.kernel) = 1
        /\ call.op = "transform" =>
            /\ call.trace = <<"Grid.transform", "Grid.scaled_to", "map_coordinates">>
            /\ \E r \in resample(self, Grid_transform(self.grid, call.transforms),
                                 Given("mode"), Given("order"), Given("cval")) :
                    r.res = call.res /\ r.kernel = call.kernel
        /\ call.op = "resample" =>
            /\ call.trace = <<"Grid.scaled_to", "map_coordinates">>
            /\ \E r \in sample(self, Grid_scaled_to(call.arg, self.image.shape).grid,
                               Given("mode"), Given("order"), Given("cval")) :
                    r.res = call.res /\ r.kernel = call.kernel
        /\ call.op = "sample" => call.trace = <<"map_coordinates">>

\* a transform call of two different transforms with a cval override that
\* returned an array
C8_Witness ==
    /\ Done
    /\ call.op = "transform"
    /\ Len(call.transforms) = 2
    /\ call.transforms[1] # call.transforms[2]
    /\ Given("cval") = <<8>>
    /\ call.res.ok

\* C9: for points of shape (ndims, d1..dk) with (d1..dk) the image's shape,
\* the kernel is handed one row per position, row j being the j-th point in
\* row-major order, and the returned array has the image's shape and holds
\* at position p the intensity interpolated at the p-th point.
C9_ShapeBookkeeping ==
    (/\ Done
     /\ call.op = "sample"
     /\ Tail(call.arg.shape) = self.image.shape
     /\ ValidConfig)
    => /\ K.coordinates.shape = <<NPoints, nd>>
       /\ \A j \in 1..NPoints, k \in 1..nd :
            K.coordinates.data[(j - 1) * nd + k] = PointAt(j)[k]
       /\ call.res.ok
       /\ call.res.shape = self.image.shape
       /\ \A p \in 1..NPoints :
            call.res.data[p] = Interp(self.image, PointAt(p), K.mode, K.order, K.cval)

\* C10: transform reads only the keywords mode, order and cval: an absent
\* one reaches the kernel as the instance default, and a keyword of another
\* name changes nothing, the call being one of the runs of the same call
\* with only the mode, order and cval entries.
C10_KwargsFilter ==
    (Done /\ call.op = "transform") =>
        /\ "mode" \notin DOMAIN call.kwargs => K.mode = self.default_mode
        /\ "order" \notin DOMAIN call.kwargs => K.order = self.default_order
        /\ "cval" \notin DOMAIN call.kwargs => K.cval = self.default_cval
        /\ \E r \in transform(self, call.transforms,
                        [n \in (DOMAIN call.kwargs) \cap {"mode", "order", "cval"} |->
                            call.kwargs[n]]) :
                r.res = call.res /\ r.kernel = call.kernel /\ r.trace = call.trace

\* a transform call given an unknown keyword and order but no cval, that
\* returned an array
C10_Witness ==
    /\ Done
    /\ call.op = "transform"
    /\ DOMAIN call.kwargs = {"order", "prefilter"}
    /\ call.kwargs["order"] = 1
    /\ self.default_cval = 8
    /\ call.res.ok

====
